---- MODULE Spec2Model ----
(***************************************************************************)
(* Quiz Wiz: a client-side worksheet application.  The model covers the    *)
(* session store (src/utils/storage.ts), the answer evaluation of the      *)
(* Question component, the Worksheet and Results pages, the Index page     *)
(* with its student form and upload panel, and the score computation of    *)
(* the PDF report.                                                         *)
(*                                                                         *)
(* Data representation.  A JavaScript string is a sequence of one-         *)
(* character strings, so that trim() and toLowerCase() are computed.  An   *)
(* optional value (a missing property, null, undefined) is None == <<>>    *)
(* and a present one is Some(v) == <<v>>.  A correctAnswer, which is a     *)
(* string or an array of strings, is a record that says which it is.       *)
(***************************************************************************)
EXTENDS Integers, Sequences, FiniteSets, TLC

None == <<>>
Some(v) == <<v>>
IsSome(o) == o # None
Val(o) == o[1]

(***************************************************************************)
(* Strings                                                                 *)
(***************************************************************************)
UpperLetters == <<"A","B","C","D","E","F","G","H","I","J","K","L","M",
                  "N","O","P","Q","R","S","T","U","V","W","X","Y","Z">>
LowerLetters == <<"a","b","c","d","e","f","g","h","i","j","k","l","m",
                  "n","o","p","q","r","s","t","u","v","w","x","y","z">>
WhiteSpace == {" ", "\t", "\n"}

\* String.prototype.toLowerCase, one character
LowerChar(c) ==
  IF \E i \in 1..26 : UpperLetters[i] = c
    THEN LowerLetters[CHOOSE i \in 1..26 : UpperLetters[i] = c]
    ELSE c

\* String.prototype.toLowerCase
toLowerCase(s) == [i \in 1..Len(s) |-> LowerChar(s[i])]

RECURSIVE TrimStart(_)
TrimStart(s) ==
  IF s # <<>> /\ Head(s) \in WhiteSpace THEN TrimStart(Tail(s)) ELSE s

RECURSIVE TrimEnd(_)
TrimEnd(s) ==
  IF s # <<>> /\ s[Len(s)] \in WhiteSpace
    THEN TrimEnd(SubSeq(s, 1, Len(s) - 1))
    ELSE s

\* String.prototype.trim
trim(s) == TrimEnd(TrimStart(s))

Digits == <<"0","1","2","3","4","5","6","7","8","9">>

\* Number.prototype.toString for a non-negative integer
RECURSIVE NumberToString(_)
NumberToString(n) ==
  IF n < 10 THEN <<Digits[n + 1]>>
  ELSE Append(NumberToString(n \div 10), Digits[(n % 10) + 1])

DigitValue(c) == (CHOOSE i \in 1..10 : Digits[i] = c) - 1

\* parseInt(s, 10) of a string of decimal digits
RECURSIVE parseInt(_)
parseInt(s) ==
  IF Len(s) = 1 THEN DigitValue(s[1])
  ELSE 10 * parseInt(SubSeq(s, 1, Len(s) - 1)) + DigitValue(s[Len(s)])

(***************************************************************************)
(* src/types.ts                                                            *)
(***************************************************************************)
\* correctAnswer: string | string[]
AnswerString(s) == [isArray |-> FALSE, str |-> s, arr |-> <<>>]
AnswerArray(a) == [isArray |-> TRUE, str |-> <<>>, arr |-> a]

Question(id, type, text, options, correctAnswer) ==
  [id |-> id, type |-> type, text |-> text, options |-> options,
   correctAnswer |-> correctAnswer, userAnswer |-> None, isCorrect |-> None]

WorksheetSection(id, title, questions) ==
  [id |-> id, title |-> title, questions |-> questions]

Worksheet(id, title, sections) ==
  [id |-> id, title |-> title, sections |-> sections]

(***************************************************************************)
(* src/utils/storage.ts: the session store.  A store is a function from    *)
(* the four keys to None (no item) or Some(item).                          *)
(***************************************************************************)
WORKSHEET_KEY == "quiz_wizard_worksheet"
CURRENT_QUESTION_KEY == "quiz_wizard_current_question"
STUDENT_INFO_KEY == "quiz_wizard_student_info"
COMPLETED_KEY == "quiz_wizard_completed"
StorageKeys == {WORKSHEET_KEY, CURRENT_QUESTION_KEY, STUDENT_INFO_KEY, COMPLETED_KEY}

EmptyStorage == [k \in StorageKeys |-> None]

setItem(ss, key, value) == [ss EXCEPT ![key] = Some(value)]
removeItem(ss, key) == [ss EXCEPT ![key] = None]

saveWorksheet(ss, worksheet) == setItem(ss, WORKSHEET_KEY, worksheet)

\* null is None
getWorksheet(ss) == ss[WORKSHEET_KEY]

saveCurrentQuestionIndex(ss, index) ==
  setItem(ss, CURRENT_QUESTION_KEY, NumberToString(index))

getCurrentQuestionIndex(ss) ==
  IF IsSome(ss[CURRENT_QUESTION_KEY]) /\ Val(ss[CURRENT_QUESTION_KEY]) # <<>>
    THEN parseInt(Val(ss[CURRENT_QUESTION_KEY]))
    ELSE 0

saveStudentInfo(ss, info) == setItem(ss, STUDENT_INFO_KEY, info)

getStudentInfo(ss) == ss[STUDENT_INFO_KEY]

BooleanToString(b) == IF b THEN "true" ELSE "false"

markAsCompleted(ss, completed) == setItem(ss, COMPLETED_KEY, BooleanToString(completed))

isCompleted(ss) == ss[COMPLETED_KEY] = Some("true")

\* a callback that writes the answer over the key as well
UpdateQuestion_OverwritesKey(question, questionId, answer, correct) ==
  IF question.id = questionId
    THEN [question EXCEPT !.userAnswer = Some(answer), !.isCorrect = Some(correct),
                          !.correctAnswer = AnswerString(answer)]
    ELSE question

\* a callback that records the answer without the verdict
UpdateQuestion_NoVerdict(question, questionId, answer, correct) ==
  IF question.id = questionId
    THEN [question EXCEPT !.userAnswer = Some(answer)]
    ELSE question

\* a callback that adds the answer to the one already there
UpdateQuestion_Accumulate(question, questionId, answer, correct) ==
  IF question.id = questionId
    THEN [question EXCEPT
            !.userAnswer = IF question.userAnswer = None THEN Some(answer)
                           ELSE Some(Val(question.userAnswer) \o answer),
            !.isCorrect = Some(correct)]
    ELSE question

\* the inner map callback: one question of one section
UpdateQuestion(question, questionId, answer, correct) ==
  IF question.id = questionId
    THEN [question EXCEPT !.userAnswer = Some(answer), !.isCorrect = Some(correct)]
    ELSE question

\* a map that stops at the first question of the id
UpdatedSections_FirstOnly(worksheet, questionId, answer, correct) ==
  [s \in 1..Len(worksheet.sections) |->
     [worksheet.sections[s] EXCEPT !.questions =
        [q \in 1..Len(worksheet.sections[s].questions) |->
           IF \/ \E t \in 1..(s - 1) : \E r \in 1..Len(worksheet.sections[t].questions) :
                   worksheet.sections[t].questions[r].id = questionId
              \/ \E r \in 1..(q - 1) : worksheet.sections[s].questions[r].id = questionId
             THEN worksheet.sections[s].questions[q]
             ELSE IF worksheet.sections[s].questions[q].id = questionId
               THEN [worksheet.sections[s].questions[q] EXCEPT
                       !.userAnswer = Some(answer), !.isCorrect = Some(correct)]
               ELSE worksheet.sections[s].questions[q]]]]

\* worksheet.sections.map(section => ({...section, questions: ...}))
UpdatedSections(worksheet, questionId, answer, correct) ==
  [s \in 1..Len(worksheet.sections) |->
     [worksheet.sections[s] EXCEPT !.questions =
        [q \in 1..Len(worksheet.sections[s].questions) |->
           UpdateQuestion(worksheet.sections[s].questions[q], questionId, answer, correct)]]]

\* the flag `updated`: some question had the id
Updated(worksheet, questionId) ==
  \E s \in 1..Len(worksheet.sections) :
    \E q \in 1..Len(worksheet.sections[s].questions) :
      worksheet.sections[s].questions[q].id = questionId

\* no early return: a missing worksheet is taken as an empty one and saved
updateQuestionAnswer_NoGuard(ss, questionId, answer, correct) ==
  LET worksheet == IF getWorksheet(ss) = None
                     THEN [id |-> None, title |-> "", sections |-> <<>>]
                     ELSE Val(getWorksheet(ss))
  IN saveWorksheet(ss, [worksheet EXCEPT !.sections =
                          UpdatedSections(worksheet, questionId, answer, correct)])

updateQuestionAnswer(ss, questionId, answer, correct) ==
  IF getWorksheet(ss) = None THEN ss
  ELSE LET worksheet == Val(getWorksheet(ss)) IN
    IF Updated(worksheet, questionId)
      THEN saveWorksheet(ss, [worksheet EXCEPT !.sections =
                                UpdatedSections(worksheet, questionId, answer, correct)])
      ELSE ss

RECURSIVE FlatMapQuestions(_)
FlatMapQuestions(sections) ==
  IF sections = <<>> THEN <<>>
  ELSE Head(sections).questions \o FlatMapQuestions(Tail(sections))

getAllQuestions(ss) ==
  IF getWorksheet(ss) = None THEN <<>>
  ELSE FlatMapQuestions(Val(getWorksheet(ss)).sections)

\* q => q.userAnswer !== undefined
HasUserAnswer(q) == q.userAnswer # None

\* q => q.isCorrect
IsMarkedCorrect(q) == q.isCorrect = Some(TRUE)

\* questions.filter(q => q.userAnswer !== undefined).length
CountAnswered(questions) == Cardinality({i \in 1..Len(questions) : HasUserAnswer(questions[i])})

\* questions.filter(q => q.isCorrect).length
CountCorrect(questions) == Cardinality({i \in 1..Len(questions) : IsMarkedCorrect(questions[i])})

\* sections.reduce((total, section) => total + section.questions.filter(...).length, 0)
RECURSIVE ReduceAnswered(_)
ReduceAnswered(sections) ==
  IF sections = <<>> THEN 0
  ELSE CountAnswered(Head(sections).questions) + ReduceAnswered(Tail(sections))

\* sections.reduce((total, section) => total + section.questions.length, 0)
RECURSIVE ReduceLength(_)
ReduceLength(sections) ==
  IF sections = <<>> THEN 0
  ELSE Len(Head(sections).questions) + ReduceLength(Tail(sections))

getCompletedQuestionsCount(ss) ==
  IF getWorksheet(ss) = None THEN 0
  ELSE ReduceAnswered(Val(getWorksheet(ss)).sections)

getTotalQuestionsCount(ss) ==
  IF getWorksheet(ss) = None THEN 0
  ELSE ReduceLength(Val(getWorksheet(ss)).sections)

getCorrectAnswersCount(ss) == CountCorrect(getAllQuestions(ss))

\* a clear that leaves the student info in its slot
clearStorage_KeepsStudentInfo(ss) ==
  removeItem(removeItem(removeItem(ss, WORKSHEET_KEY), CURRENT_QUESTION_KEY), COMPLETED_KEY)

clearStorage(ss) ==
  removeItem(removeItem(removeItem(removeItem(ss, WORKSHEET_KEY),
    CURRENT_QUESTION_KEY), STUDENT_INFO_KEY), COMPLETED_KEY)


(***************************************************************************)
(* components/Question.tsx: the evaluation made by handleSubmit            *)
(***************************************************************************)
ChoiceTypes == {"multiple-choice", "matching"}
TextTypes == {"text", "fill-blank"}

\* a comparison that ignores case, as the text branch makes
StrictEquals_IgnoreCase(selectedOption, correctAnswer) ==
  ~correctAnswer.isArray /\ toLowerCase(selectedOption) = toLowerCase(correctAnswer.str)

\* selectedOption === question.correctAnswer (never true of an array)
StrictEquals(selectedOption, correctAnswer) ==
  ~correctAnswer.isArray /\ selectedOption = correctAnswer.str

\* the text branch without toLowerCase() on the answer key
TextMatches_KeyNotLowered(answer, correctAnswer) ==
  LET userAnswerLower == toLowerCase(answer) IN
  IF correctAnswer.isArray
    THEN \E i \in 1..Len(correctAnswer.arr) : userAnswerLower = correctAnswer.arr[i]
    ELSE userAnswerLower = correctAnswer.str

\* the text branch: Array.isArray(...) ? some(...) : ... === ...toLowerCase()
TextMatches(answer, correctAnswer) ==
  LET userAnswerLower == toLowerCase(answer) IN
  IF correctAnswer.isArray
    THEN \E i \in 1..Len(correctAnswer.arr) :
           userAnswerLower = toLowerCase(correctAnswer.arr[i])
    ELSE userAnswerLower = toLowerCase(correctAnswer.str)

\* the switch of handleSubmit: the pair (answer, correct)
Evaluate(question, selectedOption, textAnswer) ==
  IF question.type \in ChoiceTypes
    THEN [answer |-> selectedOption,
          correct |-> StrictEquals(selectedOption, question.correctAnswer)]
  ELSE IF question.type \in TextTypes
    THEN [answer |-> trim(textAnswer),
          correct |-> TextMatches(trim(textAnswer), question.correctAnswer)]
  ELSE [answer |-> <<>>, correct |-> FALSE]

\* the `disabled` attribute of the Submit button
SubmitDisabled(question, selectedOption, textAnswer) ==
  IF question.type \in ChoiceTypes
    THEN selectedOption = <<>>
    ELSE trim(textAnswer) = <<>>

(***************************************************************************)
(* JavaScript numbers that may be NaN, and the two score computations      *)
(***************************************************************************)
Num(n) == [nan |-> FALSE, val |-> n]
NaN == [nan |-> TRUE, val |-> 0]

\* Math.round((correct / total) * 100), with 0 <= correct <= total
MathRoundPercent(correct, total) ==
  IF total = 0 THEN NaN
  ELSE Num((200 * correct + total) \div (2 * total))

\* services/pdfService.ts: totalQuestions, correctAnswers, scorePercent
RECURSIVE ReduceCorrect(_)
ReduceCorrect(sections) ==
  IF sections = <<>> THEN 0
  ELSE CountCorrect(Head(sections).questions) + ReduceCorrect(Tail(sections))

generatePDFScore(worksheet) ==
  LET totalQuestions == ReduceLength(worksheet.sections)
      correctAnswers == ReduceCorrect(worksheet.sections)
  IN [totalQuestions |-> totalQuestions,
      correctAnswers |-> correctAnswers,
      scorePercent |-> MathRoundPercent(correctAnswers, totalQuestions)]

\* question.userAnswer || "Not answered"
NotAnswered == <<"N","o","t"," ","a","n","s","w","e","r","e","d">>

\* Array.prototype.join(", ")
RECURSIVE Join(_)
Join(arr) ==
  IF arr = <<>> THEN <<>>
  ELSE IF Len(arr) = 1 THEN arr[1]
  ELSE arr[1] \o <<",", " ">> \o Join(Tail(arr))

\* a report that appends the "Correct answer:" paragraph to every question
QuestionElement_AlwaysCorrectAnswer(question, index) ==
  [questionText |-> <<index + 1, question.text>>,
   yourAnswer |-> IF question.userAnswer = None \/ question.userAnswer = Some(<<>>)
                    THEN NotAnswered
                    ELSE Val(question.userAnswer),
   color |-> IF IsMarkedCorrect(question) THEN "#10b981" ELSE "#ef4444",
   correctAnswer |-> Some(IF question.correctAnswer.isArray
                            THEN Join(question.correctAnswer.arr)
                            ELSE question.correctAnswer.str)]

\* questionElement: the prompt, "Your answer:" and, in the else branch of
\* `if (question.isCorrect)`, the appended "Correct answer:" paragraph with
\* Array.isArray(correctAnswer) ? correctAnswer.join(", ") : correctAnswer
QuestionElement(question, index) ==
  [questionText |-> <<index + 1, question.text>>,
   yourAnswer |-> IF question.userAnswer = None \/ question.userAnswer = Some(<<>>)
                    THEN NotAnswered
                    ELSE Val(question.userAnswer),
   color |-> IF IsMarkedCorrect(question) THEN "#10b981" ELSE "#ef4444",
   correctAnswer |-> IF IsMarkedCorrect(question) THEN None
                     ELSE Some(IF question.correctAnswer.isArray
                                 THEN Join(question.correctAnswer.arr)
                                 ELSE question.correctAnswer.str)]

\* the A4 page of jsPDF in mm: pdf.internal.pageSize
A4 == [width |-> 210, height |-> 297]

\* pdf.addImage(imgData, "PNG", 0, position, imgWidth * ratio, imgHeight * ratio)
\* with ratio = Math.min(pdfWidth / imgWidth, pdfHeight / imgHeight): the
\* sizes are fractions with the denominator of ratio
AddImage(position, canvas, page) ==
  LET ratio == IF page.width * canvas.height <= page.height * canvas.width
                 THEN [num |-> page.width, den |-> canvas.width]
                 ELSE [num |-> page.height, den |-> canvas.height]
  IN [x |-> 0, y |-> position,
      width |-> [num |-> canvas.width * ratio.num, den |-> ratio.den],
      height |-> [num |-> canvas.height * ratio.num, den |-> ratio.den]]

\* while (heightLeft > 0) { position = heightLeft - imgHeight; addPage; addImage;
\* heightLeft -= pdfHeight }
RECURSIVE AddPages(_, _, _, _)
AddPages(pages, heightLeft, canvas, page) ==
  IF heightLeft > 0
    THEN AddPages(Append(pages, AddImage(heightLeft - canvas.height, canvas, page)),
                  heightLeft - page.height, canvas, page)
    ELSE pages

\* generatePDF: the container with one element per section and question,
\* rendered by html2canvas to `canvas` and laid out on pages of size `page`:
\* the first page at position 0, then the loop
generatePDF(worksheet, studentInfo, canvas, page) ==
  LET score == generatePDFScore(worksheet) IN
  [title |-> worksheet.title,
   student |-> studentInfo,
   totalQuestions |-> score.totalQuestions,
   correctAnswers |-> score.correctAnswers,
   scorePercent |-> score.scorePercent,
   sections |-> [s \in 1..Len(worksheet.sections) |->
     [sectionTitle |-> worksheet.sections[s].title,
      questions |-> [i \in 1..Len(worksheet.sections[s].questions) |->
                       QuestionElement(worksheet.sections[s].questions[i], i - 1)]]],
   pages |-> AddPages(<<AddImage(0, canvas, page)>>, canvas.height - page.height,
                      canvas, page)]

\* pages/Results.tsx: the score computed by the mount effect
ResultsScore(ss) ==
  LET correct == getCorrectAnswersCount(ss)
      total == getTotalQuestionsCount(ss)
  IN [correctCount |-> correct,
      totalCount |-> total,
      scorePercent |-> MathRoundPercent(correct, total)]

(***************************************************************************)
(* components/WorksheetUpload.tsx: the demo fixture                        *)
(***************************************************************************)
Option(id, text) == [id |-> id, text |-> text]

DemoOptions ==
  Some(<< Option(<<"a">>, "Oh no, te deslizaste por la serpiente!"),
          Option(<<"b">>, "Es mi turno."),
          Option(<<"c">>, "Voy a tirar el dado."),
          Option(<<"d">>, "Te moviste dos espacios."),
          Option(<<"e">>, "Subi la escalera.") >>)

createSampleWorksheet ==
  Worksheet(<<"demo-worksheet">>, "Spanish Game Night Worksheet!", <<
    WorksheetSection(<<"section-1">>, "Match the English to Spanish", <<
      Question(<<"q1">>, "matching", "It is my turn.", DemoOptions, AnswerString(<<"b">>)),
      Question(<<"q2">>, "matching", "I will throw the dice.", DemoOptions, AnswerString(<<"c">>)),
      Question(<<"q3">>, "matching", "You moved two spaces.", DemoOptions, AnswerString(<<"d">>)),
      Question(<<"q4">>, "matching", "I climbed the ladder.", DemoOptions, AnswerString(<<"e">>)),
      Question(<<"q5">>, "matching", "Oh no, you slid down!", DemoOptions, AnswerString(<<"a">>)) >>),
    WorksheetSection(<<"section-2">>, "Fill in the blanks", <<
      Question(<<"q6">>, "fill-blank", "_______ mi turno.", None,
               AnswerString(<<"E","s">>)),
      Question(<<"q7">>, "fill-blank", "Voy a _______ el dado.", None,
               AnswerString(<<"t","i","r","a","r">>)),
      Question(<<"q8">>, "fill-blank", "Te _______ dos espacios.", None,
               AnswerString(<<"m","o","v","i","s","t","e">>)),
      Question(<<"q9">>, "fill-blank", "Subi la _______.", None,
               AnswerString(<<"e","s","c","a","l","e","r","a">>)),
      Question(<<"q10">>, "fill-blank", "_______ no, te deslizaste por la serpiente.", None,
               AnswerString(<<"O","h">>)) >>) >>)

(***************************************************************************)
(* The ingestion endpoints: identifiers given to the parsed AI response    *)
(* (the supabase and netlify process-worksheet functions).                 *)
(* uuidv4() is a fresh value: the request number and the place in the      *)
(* worksheet make it unique.                                               *)
(***************************************************************************)
uuidv4(request, s, q) == <<"uuid", request, s, q>>

\* String.fromCharCode(97 + index), index from 0
fromCharCode97(index) == <<LowerLetters[index + 1]>>

\* opt.id || String.fromCharCode(97 + index)
ProcessOption(opt, index) ==
  [opt EXCEPT !.id = IF opt.id = None \/ opt.id = Some(<<>>)
                       THEN fromCharCode97(index)
                       ELSE Val(opt.id)]

\* question.options?.map(...)
ProcessOptions(options) ==
  IF options = None THEN None
  ELSE Some([i \in 1..Len(Val(options)) |-> ProcessOption(Val(options)[i], i - 1)])

ProcessQuestion(question, request, s, q) ==
  [question EXCEPT !.id = uuidv4(request, s, q),
                   !.options = ProcessOptions(question.options)]

ProcessSection(section, request, s) ==
  [section EXCEPT !.id = uuidv4(request, s, 0),
                  !.questions = [q \in 1..Len(section.questions) |->
                                   ProcessQuestion(section.questions[q], request, s, q)]]

\* processedWorksheet
ProcessWorksheet(parsedWorksheet, request) ==
  [parsedWorksheet EXCEPT !.id = uuidv4(request, 0, 0),
                          !.sections = [s \in 1..Len(parsedWorksheet.sections) |->
                                          ProcessSection(parsedWorksheet.sections[s], request, s)]]

(***************************************************************************)
(* Bounds and inputs                                                       *)
(***************************************************************************)
\* uploads submitted in one run
MaxUploads == 2

\* what the user selects and types
OptionInputs == {<<"b">>}
TextInputs == {<<" ","E","S"," ">>}
NameInputs == {<<" ">>, <<"A","n","a">>}
FileTypes == {"image/png", "application/pdf"}

\* parsed AI responses: no identifiers yet
ParsedQuestion(type, text, options, correctAnswer) ==
  Question(None, type, text, options, correctAnswer)

ParsedSection(title, questions) == WorksheetSection(None, title, questions)

EmptyPayload == Worksheet(None, "Empty", <<>>)

ThreeQuestionPayload ==
  Worksheet(None, "Quiz", <<
    ParsedSection("Choose", <<
      ParsedQuestion("multiple-choice", "Pick one",
                     Some(<<Option(None, "first"), Option(None, "second")>>),
                     AnswerString(<<"b">>)) >>),
    ParsedSection("Write", <<
      ParsedQuestion("text", "Translate: it is",
                     None, AnswerArray(<< <<"E","s">>, <<"e","s">> >>)),
      ParsedQuestion("fill-blank", "_ mi turno", None, AnswerString(<<"E","s">>)) >>) >>)

RemotePayloads == {EmptyPayload, ThreeQuestionPayload}

(***************************************************************************)
(* State                                                                   *)
(***************************************************************************)
VARIABLES
  sessionStorage,  \* the four slots of the browser's session storage
  route,           \* location.pathname
  indexPage,       \* pages/Index.tsx with StudentForm and WorksheetUpload, or None
  worksheetPage,   \* pages/Worksheet.tsx with its Question, or None
  resultsPage,     \* pages/Results.tsx, or None
  inflight,        \* ingestions awaited by a handleSubmit of WorksheetUpload
  navTimers,       \* pending setTimeout(() => navigate("/worksheet"), 500)
  requests         \* uploads submitted so far

vars == <<sessionStorage, route, indexPage, worksheetPage, resultsPage,
          inflight, navTimers, requests>>

(***************************************************************************)
(* Mounting a page: the useState initialisers and the mount effect, with   *)
(* the redirects the effect makes.                                         *)
(***************************************************************************)
\* pages/Index.tsx, StudentForm.tsx, WorksheetUpload.tsx: initial state
IndexMounted(ss) ==
  [activeTab |-> "name",
   hasCompletedInfo |-> IsSome(getStudentInfo(ss)),
   name |-> <<>>, isSubmitting |-> FALSE,
   file |-> None, isUploading |-> FALSE]

\* a page that starts at the first question, not at the stored pointer
WorksheetMounted_FromZero(ss) ==
  [worksheet |-> Val(getWorksheet(ss)),
   currentIndex |-> 0,
   completedCount |-> getCompletedQuestionsCount(ss),
   selectedOption |-> <<>>, textAnswer |-> <<>>,
   hasSubmitted |-> FALSE, isCorrect |-> FALSE]

\* pages/Worksheet.tsx and components/Question.tsx: initial state
WorksheetMounted(ss) ==
  [worksheet |-> Val(getWorksheet(ss)),
   currentIndex |-> getCurrentQuestionIndex(ss),
   completedCount |-> getCompletedQuestionsCount(ss),
   selectedOption |-> <<>>, textAnswer |-> <<>>,
   hasSubmitted |-> FALSE, isCorrect |-> FALSE]

\* pages/Results.tsx: state after the mount effect computed the score
ResultsMounted(ss) ==
  [worksheet |-> Val(getWorksheet(ss)),
   studentInfo |-> Val(getStudentInfo(ss)),
   score |-> ResultsScore(ss),
   pdf |-> None]

EnterIndex(ss) ==
  [route |-> "/", indexPage |-> Some(IndexMounted(ss)),
   worksheetPage |-> None, resultsPage |-> None]

\* Worksheet's effect: no worksheet, navigate("/")
EnterWorksheet(ss) ==
  IF getWorksheet(ss) = None THEN EnterIndex(ss)
  ELSE [route |-> "/worksheet", indexPage |-> None,
        worksheetPage |-> Some(WorksheetMounted(ss)), resultsPage |-> None]

\* an effect that does not look at the completed flag
EnterResults_NoCompletedGuard(ss) ==
  IF getWorksheet(ss) = None \/ getStudentInfo(ss) = None THEN EnterIndex(ss)
  ELSE [route |-> "/results", indexPage |-> None,
        worksheetPage |-> None, resultsPage |-> Some(ResultsMounted(ss))]

\* Results' effect: not completed, navigate("/worksheet"); data missing, navigate("/")
EnterResults(ss) ==
  IF ~isCompleted(ss) THEN EnterWorksheet(ss)
  ELSE IF getWorksheet(ss) = None \/ getStudentInfo(ss) = None THEN EnterIndex(ss)
  ELSE [route |-> "/results", indexPage |-> None,
        worksheetPage |-> None, resultsPage |-> Some(ResultsMounted(ss))]

Enter(to, ss) ==
  CASE to = "/" -> EnterIndex(ss)
    [] to = "/worksheet" -> EnterWorksheet(ss)
    [] to = "/results" -> EnterResults(ss)

\* an ingestion whose WorksheetUpload was unmounted: its setState calls do nothing
Orphaned(pending) == {[p EXCEPT !.live = FALSE] : p \in pending}

\* navigate(to) with the store ss: the same route keeps the mounted page
Navigate(to, ss) ==
  IF to = route
    THEN UNCHANGED <<route, indexPage, worksheetPage, resultsPage, inflight>>
    ELSE LET e == Enter(to, ss) IN
         /\ route' = e.route
         /\ indexPage' = e.indexPage
         /\ worksheetPage' = e.worksheetPage
         /\ resultsPage' = e.resultsPage
         /\ inflight' = Orphaned(inflight)

Init ==
  /\ sessionStorage = EmptyStorage
  /\ route = "/"
  /\ indexPage = Some(IndexMounted(EmptyStorage))
  /\ worksheetPage = None
  /\ resultsPage = None
  /\ inflight = {}
  /\ navTimers = 0
  /\ requests = 0

(***************************************************************************)
(* pages/Index.tsx and components/StudentForm.tsx                          *)
(***************************************************************************)
OnIndex == route = "/" /\ indexPage # None
Index == Val(indexPage)

\* onChange of the name input
SetName(n) ==
  /\ OnIndex /\ Index.activeTab = "name"
  /\ indexPage' = Some([Index EXCEPT !.name = n])
  /\ UNCHANGED <<sessionStorage, route, worksheetPage, resultsPage,
                 inflight, navTimers, requests>>

\* a handleSubmit that tests the name without trimming it
StudentFormSubmit_NoTrim ==
  /\ OnIndex /\ Index.activeTab = "name" /\ ~Index.isSubmitting
  /\ IF Index.name = <<>>
       THEN UNCHANGED <<sessionStorage, indexPage>>
       ELSE /\ sessionStorage' = saveStudentInfo(sessionStorage,
                                   [name |-> trim(Index.name), timestamp |-> "now"])
            /\ indexPage' = Some([Index EXCEPT !.isSubmitting = TRUE])
  /\ UNCHANGED <<route, worksheetPage, resultsPage, inflight, navTimers, requests>>

\* StudentForm.handleSubmit; the button is disabled while isSubmitting
StudentFormSubmit ==
  /\ OnIndex /\ Index.activeTab = "name" /\ ~Index.isSubmitting
  /\ IF trim(Index.name) = <<>>
       THEN UNCHANGED <<sessionStorage, indexPage>>
       ELSE /\ sessionStorage' = saveStudentInfo(sessionStorage,
                                   [name |-> trim(Index.name), timestamp |-> "now"])
            /\ indexPage' = Some([Index EXCEPT !.isSubmitting = TRUE])
  /\ UNCHANGED <<route, worksheetPage, resultsPage, inflight, navTimers, requests>>

\* the 500 ms timer of StudentForm.handleSubmit: onComplete is
\* Index.handleStudentFormComplete; the upload panel is mounted
StudentFormComplete ==
  /\ OnIndex /\ Index.isSubmitting
  /\ indexPage' = Some([Index EXCEPT !.isSubmitting = FALSE, !.name = <<>>,
                                     !.hasCompletedInfo = TRUE, !.activeTab = "upload"])
  /\ UNCHANGED <<sessionStorage, route, worksheetPage, resultsPage,
                 inflight, navTimers, requests>>

\* the "Upload" tab trigger, enabled by hasCompletedInfo; StudentForm is unmounted
SwitchToUpload ==
  /\ OnIndex /\ Index.activeTab = "name" /\ Index.hasCompletedInfo
  /\ indexPage' = Some([Index EXCEPT !.activeTab = "upload",
                                     !.name = <<>>, !.isSubmitting = FALSE])
  /\ UNCHANGED <<sessionStorage, route, worksheetPage, resultsPage,
                 inflight, navTimers, requests>>

(***************************************************************************)
(* components/WorksheetUpload.tsx                                          *)
(***************************************************************************)
UploadShown == OnIndex /\ Index.activeTab = "upload" /\ ~Index.isUploading

\* handleFileChange
SelectFile(f) ==
  /\ UploadShown
  /\ indexPage' = Some([Index EXCEPT !.file = Some(f)])
  /\ UNCHANGED <<sessionStorage, route, worksheetPage, resultsPage,
                 inflight, navTimers, requests>>

\* a handleSubmit that sends the request and leaves the session as it is
UploadSubmit_NoClear ==
  /\ UploadShown
  /\ IF Index.file = None
       THEN UNCHANGED <<sessionStorage, indexPage, inflight, requests>>
       ELSE /\ requests < MaxUploads
            /\ indexPage' = Some([Index EXCEPT !.isUploading = TRUE])
            /\ sessionStorage' = sessionStorage
            /\ inflight' = inflight \cup
                 {[request |-> requests + 1, fileType |-> Val(Index.file), live |-> TRUE]}
            /\ requests' = requests + 1
  /\ UNCHANGED <<route, worksheetPage, resultsPage, navTimers>>

\* handleSubmit up to the await: no file, a toast; else clearStorage and the request
UploadSubmit ==
  /\ UploadShown
  /\ IF Index.file = None
       THEN UNCHANGED <<sessionStorage, indexPage, inflight, requests>>
       ELSE /\ requests < MaxUploads
            /\ indexPage' = Some([Index EXCEPT !.isUploading = TRUE])
            /\ sessionStorage' = clearStorage(sessionStorage)
            /\ inflight' = inflight \cup
                 {[request |-> requests + 1, fileType |-> Val(Index.file), live |-> TRUE]}
            /\ requests' = requests + 1
  /\ UNCHANGED <<route, worksheetPage, resultsPage, navTimers>>

\* handleSubmit after the await, result.error || !result.worksheet
IngestionFails(p) ==
  /\ p \in inflight
  /\ inflight' = inflight \ {p}
  /\ indexPage' = IF p.live THEN Some([Index EXCEPT !.isUploading = FALSE]) ELSE indexPage
  /\ UNCHANGED <<sessionStorage, route, worksheetPage, resultsPage, navTimers, requests>>

\* a handleSubmit that saves only for the upload submitted last
ResolveWithWorksheet_LatestOnly(p, worksheet) ==
  /\ p \in inflight
  /\ inflight' = inflight \ {p}
  /\ sessionStorage' = IF p.request = requests
                         THEN saveWorksheet(sessionStorage, worksheet)
                         ELSE sessionStorage
  /\ navTimers' = navTimers + 1
  /\ UNCHANGED <<route, indexPage, worksheetPage, resultsPage, requests>>

\* handleSubmit after the await, with result.worksheet: saveWorksheet and the timer
ResolveWithWorksheet(p, worksheet) ==
  /\ p \in inflight
  /\ inflight' = inflight \ {p}
  /\ sessionStorage' = saveWorksheet(sessionStorage, worksheet)
  /\ navTimers' = navTimers + 1
  /\ UNCHANGED <<route, indexPage, worksheetPage, resultsPage, requests>>

\* the endpoint parsed the worksheet and gave it its ids; handleSubmit saves it
IngestionSucceeds(p, parsedWorksheet) ==
  ResolveWithWorksheet(p, ProcessWorksheet(parsedWorksheet, p.request))

\* setTimeout(() => navigate("/worksheet"), 500)
NavigateTimer ==
  /\ navTimers > 0
  /\ navTimers' = navTimers - 1
  /\ Navigate("/worksheet", sessionStorage)
  /\ UNCHANGED <<sessionStorage, requests>>

\* handleDemoClick
DemoClick ==
  /\ UploadShown
  /\ sessionStorage' = saveWorksheet(clearStorage(sessionStorage), createSampleWorksheet)
  /\ Navigate("/worksheet", sessionStorage')
  /\ UNCHANGED <<navTimers, requests>>

(***************************************************************************)
(* pages/Worksheet.tsx and components/Question.tsx                         *)
(***************************************************************************)
OnWorksheet == route = "/worksheet" /\ worksheetPage # None
Page == Val(worksheetPage)

\* the state allQuestions and totalCount: set with worksheet, from the same store
allQuestions == FlatMapQuestions(Page.worksheet.sections)
totalCount == Len(allQuestions)

\* not the "Loading worksheet..." view
Rendered == OnWorksheet /\ totalCount # 0

\* the Question component is shown: allQuestions[currentIndex] is defined
QuestionShown == Rendered /\ Page.currentIndex < totalCount
currentQuestion == allQuestions[Page.currentIndex + 1]

OptionIds(question) ==
  IF question.options = None THEN {}
  ELSE {Val(question.options)[i].id : i \in 1..Len(Val(question.options))}

\* RadioGroup onValueChange (disabled once submitted)
SelectOption(o) ==
  /\ QuestionShown /\ ~Page.hasSubmitted
  /\ currentQuestion.type \in ChoiceTypes
  /\ o \in OptionIds(currentQuestion)
  /\ worksheetPage' = Some([Page EXCEPT !.selectedOption = o])
  /\ UNCHANGED <<sessionStorage, route, indexPage, resultsPage, inflight, navTimers, requests>>

\* Input onChange (disabled once submitted)
TypeText(t) ==
  /\ QuestionShown /\ ~Page.hasSubmitted
  /\ currentQuestion.type \in TextTypes
  /\ worksheetPage' = Some([Page EXCEPT !.textAnswer = t])
  /\ UNCHANGED <<sessionStorage, route, indexPage, resultsPage, inflight, navTimers, requests>>

\* a handleSubmit that also moves the stored pointer to the next question
QuestionSubmit_Advances ==
  /\ QuestionShown /\ ~Page.hasSubmitted
  /\ ~SubmitDisabled(currentQuestion, Page.selectedOption, Page.textAnswer)
  /\ LET r == Evaluate(currentQuestion, Page.selectedOption, Page.textAnswer) IN
     /\ sessionStorage' = saveCurrentQuestionIndex(
                            updateQuestionAnswer(sessionStorage, currentQuestion.id,
                                                 r.answer, r.correct),
                            Page.currentIndex + 1)
     /\ worksheetPage' = Some([Page EXCEPT !.isCorrect = r.correct, !.hasSubmitted = TRUE])
  /\ UNCHANGED <<route, indexPage, resultsPage, inflight, navTimers, requests>>

\* Question.handleSubmit
QuestionSubmit ==
  /\ QuestionShown /\ ~Page.hasSubmitted
  /\ ~SubmitDisabled(currentQuestion, Page.selectedOption, Page.textAnswer)
  /\ LET r == Evaluate(currentQuestion, Page.selectedOption, Page.textAnswer) IN
     /\ sessionStorage' = updateQuestionAnswer(sessionStorage, currentQuestion.id,
                                               r.answer, r.correct)
     /\ worksheetPage' = Some([Page EXCEPT !.isCorrect = r.correct, !.hasSubmitted = TRUE])
  /\ UNCHANGED <<route, indexPage, resultsPage, inflight, navTimers, requests>>

\* handleNextQuestion with `<=` for `<`: the last question advances too
QuestionNext_OffByOne ==
  /\ QuestionShown /\ Page.hasSubmitted
  /\ IF Page.currentIndex <= Len(allQuestions) - 1
       THEN /\ worksheetPage' = Some([Page EXCEPT
                 !.completedCount = getCompletedQuestionsCount(sessionStorage),
                 !.currentIndex = Page.currentIndex + 1,
                 !.hasSubmitted = FALSE, !.selectedOption = <<>>, !.textAnswer = <<>>])
            /\ sessionStorage' = saveCurrentQuestionIndex(sessionStorage, Page.currentIndex + 1)
            /\ UNCHANGED <<route, indexPage, resultsPage, inflight>>
       ELSE /\ sessionStorage' = markAsCompleted(sessionStorage, TRUE)
            /\ Navigate("/results", sessionStorage')
  /\ UNCHANGED <<navTimers, requests>>

\* Question.handleNext: Worksheet.handleNextQuestion, then the reset of the inputs
QuestionNext ==
  /\ QuestionShown /\ Page.hasSubmitted
  /\ IF Page.currentIndex < Len(allQuestions) - 1
       THEN /\ worksheetPage' = Some([Page EXCEPT
                 !.completedCount = getCompletedQuestionsCount(sessionStorage),
                 !.currentIndex = Page.currentIndex + 1,
                 !.hasSubmitted = FALSE, !.selectedOption = <<>>, !.textAnswer = <<>>])
            /\ sessionStorage' = saveCurrentQuestionIndex(sessionStorage, Page.currentIndex + 1)
            /\ UNCHANGED <<route, indexPage, resultsPage, inflight>>
       ELSE /\ sessionStorage' = markAsCompleted(sessionStorage, TRUE)
            /\ Navigate("/results", sessionStorage')
  /\ UNCHANGED <<navTimers, requests>>

\* the guard of the "Finish Worksheet" button
FinishShown == Rendered /\ 2 * Page.completedCount >= totalCount

\* Worksheet.handleFinish
Finish ==
  /\ FinishShown
  /\ sessionStorage' = markAsCompleted(sessionStorage, TRUE)
  /\ Navigate("/results", sessionStorage')
  /\ UNCHANGED <<navTimers, requests>>

\* the header's back arrow and the "Go Back" button: navigate("/")
GoBack ==
  /\ Rendered
  /\ Navigate("/", sessionStorage)
  /\ UNCHANGED <<sessionStorage, navTimers, requests>>

(***************************************************************************)
(* pages/Results.tsx                                                       *)
(***************************************************************************)
OnResults == route = "/results" /\ resultsPage # None
Results == Val(resultsPage)

\* handleDownloadPDF: generatePDF(worksheet, studentInfo)
DownloadPDF(canvas, page) ==
  /\ OnResults
  /\ resultsPage' = Some([Results EXCEPT !.pdf =
       Some(generatePDF(Results.worksheet, Results.studentInfo, canvas, page))])
  /\ UNCHANGED <<sessionStorage, route, indexPage, worksheetPage, inflight, navTimers, requests>>

\* handleStartNew
StartNew ==
  /\ OnResults
  /\ sessionStorage' = clearStorage(sessionStorage)
  /\ Navigate("/", sessionStorage')
  /\ UNCHANGED <<navTimers, requests>>

(***************************************************************************)
(* The browser: back and forward through the history of the tab            *)
(***************************************************************************)
Routes == {"/", "/worksheet", "/results"}

HistoryNavigate(to) ==
  /\ to # route
  /\ Navigate(to, sessionStorage)
  /\ UNCHANGED <<sessionStorage, navTimers, requests>>

Next ==
  \/ \E n \in NameInputs : SetName(n)
  \/ StudentFormSubmit
  \/ StudentFormComplete
  \/ SwitchToUpload
  \/ \E f \in FileTypes : SelectFile(f)
  \/ UploadSubmit
  \/ \E p \in inflight : IngestionFails(p)
  \/ \E p \in inflight : \E w \in RemotePayloads : IngestionSucceeds(p, w)
  \/ NavigateTimer
  \/ DemoClick
  \/ \E o \in OptionInputs : SelectOption(o)
  \/ \E t \in TextInputs : TypeText(t)
  \/ QuestionSubmit
  \/ QuestionNext
  \/ Finish
  \/ GoBack
  \/ DownloadPDF([width |-> 650, height |-> 1000], A4)
  \/ StartNew
  \/ \E to \in Routes : HistoryNavigate(to)

Spec == Init /\ [][Next]_vars

(***************************************************************************)
(* The evaluation on its own: one question, drawn with its answer key, is  *)
(* shown by the Worksheet page; the user selects or types and submits.     *)
(***************************************************************************)
\* length of a typed answer
MaxStringLen == 3

EvalAlphabet == {"E", "S", "s", " "}

RECURSIVE StringsOfLen(_)
StringsOfLen(n) ==
  IF n = 0 THEN {<<>>}
  ELSE {Append(s, c) : s \in StringsOfLen(n - 1), c \in EvalAlphabet}

EvalTextInputs == UNION {StringsOfLen(n) : n \in 0..MaxStringLen}

EvalOptionIds == {<<"a">>, <<"A">>, <<"b">>}

EvalOptions ==
  Some(<<Option(<<"a">>, "first"), Option(<<"A">>, "second"), Option(<<"b">>, "third")>>)

EvalChoiceAnswers ==
  {AnswerString(<<"a">>), AnswerString(<<"A">>), AnswerString(<<"c">>),
   AnswerArray(<< <<"a">> >>)}

EvalTextAnswers ==
  {AnswerString(<<"E","s">>), AnswerString(<<"e","s">>), AnswerString(<<" ","E","s">>),
   AnswerString(<<"S"," ","s">>), AnswerString(<<>>), AnswerString(<<"E">>),
   AnswerArray(<< <<"E","s">>, <<"e","s">> >>), AnswerArray(<< <<"S">>, <<"e"," ","e">> >>),
   AnswerArray(<< <<"s","s","s">> >>), AnswerArray(<<>>)}

EvalQuestions ==
  {Question(uuidv4(1, 1, 1), type, "choose", EvalOptions, answer) :
     type \in ChoiceTypes, answer \in EvalChoiceAnswers}
  \cup
  {Question(uuidv4(1, 1, 1), type, "write", None, answer) :
     type \in TextTypes, answer \in EvalTextAnswers}

EvalWorksheet(question) ==
  Worksheet(uuidv4(1, 0, 0), "Quiz",
            <<WorksheetSection(uuidv4(1, 1, 0), "Section", <<question>>)>>)

EvalInit ==
  /\ \E question \in EvalQuestions :
       sessionStorage = saveWorksheet(EmptyStorage, EvalWorksheet(question))
  /\ route = "/worksheet"
  /\ indexPage = None
  /\ worksheetPage = Some(WorksheetMounted(sessionStorage))
  /\ resultsPage = None
  /\ inflight = {}
  /\ navTimers = 0
  /\ requests = 0

EvalNext ==
  \/ \E o \in EvalOptionIds : SelectOption(o)
  \/ \E t \in EvalTextInputs : TypeText(t)
  \/ QuestionSubmit

SpecEval == EvalInit /\ [][EvalNext]_vars

(***************************************************************************)
(* What the claims about the evaluation say, not in the code's terms       *)
(***************************************************************************)
\* a step in which the shown question is submitted
SubmitStep ==
  /\ worksheetPage # None /\ worksheetPage' # None
  /\ ~Val(worksheetPage).hasSubmitted /\ Val(worksheetPage').hasSubmitted

\* the stored question with the id
StoredQuestion(ss, id) ==
  LET qs == getAllQuestions(ss) IN qs[CHOOSE i \in 1..Len(qs) : qs[i].id = id]

\* the same string, character by character
IdenticalStrings(a, b) == Len(a) = Len(b) /\ \A i \in 1..Len(a) : a[i] = b[i]

\* the same letter in either case, or the same character
SameLetter(c, d) ==
  c = d \/ \E k \in 1..26 : {c, d} = {UpperLetters[k], LowerLetters[k]}

EqualsIgnoringCase(a, b) ==
  Len(a) = Len(b) /\ \A i \in 1..Len(a) : SameLetter(a[i], b[i])

\* t is s without its leading and trailing whitespace
IsTrimOf(t, s) ==
  /\ t = <<>> \/ (t[1] \notin WhiteSpace /\ t[Len(t)] \notin WhiteSpace)
  /\ \E i \in 0..Len(s) :
       /\ i + Len(t) <= Len(s)
       /\ SubSeq(s, i + 1, i + Len(t)) = t
       /\ \A k \in 1..i : s[k] \in WhiteSpace
       /\ \A k \in (i + Len(t) + 1)..Len(s) : s[k] \in WhiteSpace

\* u equals, ignoring case, the correct string or a member of the correct set
Accepted(u, correctAnswer) ==
  IF correctAnswer.isArray
    THEN \E i \in 1..Len(correctAnswer.arr) : EqualsIgnoringCase(u, correctAnswer.arr[i])
    ELSE EqualsIgnoringCase(u, correctAnswer.str)

SwapCaseChar(c) ==
  IF \E k \in 1..26 : UpperLetters[k] = c
    THEN LowerLetters[CHOOSE k \in 1..26 : UpperLetters[k] = c]
  ELSE IF \E k \in 1..26 : LowerLetters[k] = c
    THEN UpperLetters[CHOOSE k \in 1..26 : LowerLetters[k] = c]
  ELSE c

\* submissions that differ from s only in letter case or surrounding whitespace
CaseAndSpaceVariants(s) ==
  {[i \in 1..Len(s) |-> SwapCaseChar(s[i])],
   <<" ">> \o s, s \o <<"\t">>, <<"\n">> \o s \o <<" ">>,
   IF s = <<>> THEN s ELSE <<SwapCaseChar(s[1])>> \o Tail(s)}

\* C1: a submitted multiple-choice or matching answer is recorded unchanged,
\* and recorded correct exactly when it is, character by character and with
\* its case, the question's correctAnswer string.
C1_ChoiceVerdict ==
  [][(SubmitStep /\ currentQuestion.type \in ChoiceTypes) =>
       LET q == StoredQuestion(sessionStorage', currentQuestion.id) IN
       /\ q.userAnswer = Some(Page.selectedOption)
       /\ q.isCorrect # None
       /\ (q.isCorrect = Some(TRUE)) <=>
            (/\ ~currentQuestion.correctAnswer.isArray
             /\ IdenticalStrings(Page.selectedOption, currentQuestion.correctAnswer.str))
    ]_vars

\* C1 witness: an option id that differs from correctAnswer only in case was
\* submitted and recorded as incorrect.
C1_Witness ==
  /\ QuestionShown /\ Page.hasSubmitted /\ currentQuestion.type \in ChoiceTypes
  /\ ~currentQuestion.correctAnswer.isArray
  /\ Page.selectedOption # currentQuestion.correctAnswer.str
  /\ EqualsIgnoringCase(Page.selectedOption, currentQuestion.correctAnswer.str)
  /\ StoredQuestion(sessionStorage, currentQuestion.id).userAnswer = Some(Page.selectedOption)
  /\ StoredQuestion(sessionStorage, currentQuestion.id).isCorrect = Some(FALSE)

MaxStoreIds == 2

\* values of saveCurrentQuestionIndex
MaxStoreIndex == 1

StoreIds == {<<"q", n>> : n \in 1..MaxStoreIds}
StoreAnswers == {<<"a">>, <<"b">>}

StoreQuestion(id) == Question(id, "multiple-choice", "choose", DemoOptions, AnswerString(<<"a">>))

StoreWorksheets ==
  {Worksheet(<<"w">>, "Stored", <<
     WorksheetSection(<<"s", 1>>, "One", <<StoreQuestion(id1), StoreQuestion(id2)>>),
     WorksheetSection(<<"s", 2>>, "Two", <<StoreQuestion(id3)>>) >>) :
   id1 \in StoreIds, id2 \in StoreIds, id3 \in StoreIds}

CallSaveWorksheet(worksheet) ==
  /\ sessionStorage' = saveWorksheet(sessionStorage, worksheet)
  /\ UNCHANGED <<route, indexPage, worksheetPage, resultsPage, inflight, navTimers, requests>>

CallSaveCurrentQuestionIndex(index) ==
  /\ sessionStorage' = saveCurrentQuestionIndex(sessionStorage, index)
  /\ UNCHANGED <<route, indexPage, worksheetPage, resultsPage, inflight, navTimers, requests>>

CallSaveStudentInfo(info) ==
  /\ sessionStorage' = saveStudentInfo(sessionStorage, info)
  /\ UNCHANGED <<route, indexPage, worksheetPage, resultsPage, inflight, navTimers, requests>>

CallMarkAsCompleted(completed) ==
  /\ sessionStorage' = markAsCompleted(sessionStorage, completed)
  /\ UNCHANGED <<route, indexPage, worksheetPage, resultsPage, inflight, navTimers, requests>>

CallUpdateQuestionAnswer(questionId, answer, correct) ==
  /\ sessionStorage' = updateQuestionAnswer(sessionStorage, questionId, answer, correct)
  /\ UNCHANGED <<route, indexPage, worksheetPage, resultsPage, inflight, navTimers, requests>>

CallClearStorage ==
  /\ sessionStorage' = clearStorage(sessionStorage)
  /\ UNCHANGED <<route, indexPage, worksheetPage, resultsPage, inflight, navTimers, requests>>

StoreNext ==
  \/ \E worksheet \in StoreWorksheets : CallSaveWorksheet(worksheet)
  \/ \E index \in 0..MaxStoreIndex : CallSaveCurrentQuestionIndex(index)
  \/ CallSaveStudentInfo([name |-> <<"A","n","a">>, timestamp |-> "now"])
  \/ \E completed \in BOOLEAN : CallMarkAsCompleted(completed)
  \/ \E questionId \in StoreIds \cup {<<"q", 0>>} : \E answer \in StoreAnswers :
       \E correct \in BOOLEAN : CallUpdateQuestionAnswer(questionId, answer, correct)
  \/ CallClearStorage

SpecStore == Init /\ [][StoreNext]_vars

\* the arguments of updateQuestionAnswer that the store is tried with
StoreCalls ==
  {<<questionId, answer, correct>> :
     questionId \in StoreIds \cup {<<"q", 0>>}, answer \in StoreAnswers, correct \in BOOLEAN}

\* C7: updateQuestionAnswer applied twice with the same arguments leaves the
\* store, and so allQuestions(), as one application leaves it.
C7_UpdateIdempotent ==
  \A c \in StoreCalls :
    LET once == updateQuestionAnswer(sessionStorage, c[1], c[2], c[3])
        twice == updateQuestionAnswer(once, c[1], c[2], c[3])
    IN twice = once /\ getAllQuestions(twice) = getAllQuestions(once)

\* C7 witness: a question holds the answer of an earlier update, and a further
\* update with other arguments would change it.
C7_Witness ==
  /\ getWorksheet(sessionStorage) # None
  /\ \E c \in StoreCalls :
       /\ Updated(Val(getWorksheet(sessionStorage)), c[1])
       /\ updateQuestionAnswer(sessionStorage, c[1], c[2], c[3]) = sessionStorage
       /\ \E d \in StoreCalls :
            d[1] = c[1] /\ updateQuestionAnswer(sessionStorage, d[1], d[2], d[3]) # sessionStorage

\* C8: with no worksheet stored, or no question of the id, updateQuestionAnswer
\* leaves all four slots as they are and stores no worksheet.
C8_UpdateNoOp ==
  \A c \in StoreCalls :
    (\/ sessionStorage[WORKSHEET_KEY] = None
     \/ \A i \in 1..Len(getAllQuestions(sessionStorage)) :
          getAllQuestions(sessionStorage)[i].id # c[1])
    => \A k \in StorageKeys :
         updateQuestionAnswer(sessionStorage, c[1], c[2], c[3])[k] = sessionStorage[k]

\* C8 witness: all four slots are written, a question is answered, and the
\* stored worksheet has no question of some id the update is called with.
C8_Witness ==
  /\ sessionStorage[CURRENT_QUESTION_KEY] # None
  /\ sessionStorage[STUDENT_INFO_KEY] # None
  /\ sessionStorage[COMPLETED_KEY] # None
  /\ getWorksheet(sessionStorage) # None
  /\ \E c \in StoreCalls : ~Updated(Val(getWorksheet(sessionStorage)), c[1])
  /\ \E i \in 1..Len(getAllQuestions(sessionStorage)) :
       getAllQuestions(sessionStorage)[i].userAnswer # None

\* the question as updateQuestionAnswer writes it
Answered(question, answer, correct) ==
  [question EXCEPT !.userAnswer = Some(answer), !.isCorrect = Some(correct)]

\* C9 as claimed: only the first question of the id, in section order then
\* question order, is replaced; later questions of the id keep their
\* userAnswer and isCorrect.
C9_FirstMatchOnly ==
  \A c \in StoreCalls :
    LET before == getAllQuestions(sessionStorage)
        after == getAllQuestions(updateQuestionAnswer(sessionStorage, c[1], c[2], c[3]))
    IN /\ Len(after) = Len(before)
       /\ \A i \in 1..Len(before) :
            after[i] = IF before[i].id = c[1] /\ \A j \in 1..(i - 1) : before[j].id # c[1]
                         THEN Answered(before[i], c[2], c[3])
                         ELSE before[i]

\* C9 amended: every question of the id, in every section, is replaced by a
\* copy with the userAnswer and isCorrect; all other questions are unchanged.
C9_EveryMatch ==
  \A c \in StoreCalls :
    LET before == getAllQuestions(sessionStorage)
        after == getAllQuestions(updateQuestionAnswer(sessionStorage, c[1], c[2], c[3]))
    IN /\ Len(after) = Len(before)
       /\ \A i \in 1..Len(before) :
            after[i] = IF before[i].id = c[1]
                         THEN Answered(before[i], c[2], c[3])
                         ELSE before[i]

\* C9 witness: two questions of one id, in different sections, hold the
\* answer of one update, and a third question of another id holds none.
C9_Witness ==
  LET qs == getAllQuestions(sessionStorage) IN
  /\ Len(qs) = 3
  /\ qs[1].id = qs[3].id /\ qs[2].id # qs[1].id
  /\ qs[1].userAnswer # None /\ qs[3].userAnswer = qs[1].userAnswer
  /\ qs[3].isCorrect = qs[1].isCorrect
  /\ qs[2].userAnswer = None

(***************************************************************************)
(* Claims about the application                                            *)
(***************************************************************************)
\* C3 as claimed: for a worksheet of 0 questions the score percentage of the
\* results view and of the report is 0, never NaN.
C3_ZeroTotalScoreIsZero ==
  OnResults =>
    /\ Results.score.totalCount = 0 => Results.score.scorePercent = Num(0)
    /\ (Results.pdf # None /\ Val(Results.pdf).totalQuestions = 0)
         => Val(Results.pdf).scorePercent = Num(0)

\* the ids of a list of questions, in order
QuestionIds(questions) == [i \in 1..Len(questions) |-> questions[i].id]

\* the worksheet on the page is the stored one (no other load replaced it)
ShownIsStored ==
  /\ getWorksheet(sessionStorage) # None
  /\ Val(getWorksheet(sessionStorage)).id = Page.worksheet.id
  /\ QuestionIds(getAllQuestions(sessionStorage)) = QuestionIds(allQuestions)

\* C4 as claimed: while a question of the stored worksheet is shown, the
\* finish button is shown exactly when the stored answers number at least
\* ceil(total / 2), so from the moment the answer reaching it is stored.
C4_FinishIffHalfAnswered ==
  (QuestionShown /\ ShownIsStored) =>
    (FinishShown <=>
       2 * getCompletedQuestionsCount(sessionStorage) >= getTotalQuestionsCount(sessionStorage))

\* C5: advance from Answering(index): below the last index the pointer becomes
\* index + 1, is persisted, and the completed flag is unchanged; at the last
\* index the page is left for Finished, completed is set, and the stored
\* pointer is unchanged.
C5_Advance ==
  [][QuestionNext =>
       IF Page.currentIndex < totalCount - 1
         THEN /\ route' = "/worksheet" /\ worksheetPage' # None
              /\ Val(worksheetPage').currentIndex = Page.currentIndex + 1
              /\ sessionStorage'[CURRENT_QUESTION_KEY] = Some(NumberToString(Page.currentIndex + 1))
              /\ getCurrentQuestionIndex(sessionStorage') = Page.currentIndex + 1
              /\ sessionStorage'[COMPLETED_KEY] = sessionStorage[COMPLETED_KEY]
         ELSE /\ route' # "/worksheet" /\ worksheetPage' = None
              /\ isCompleted(sessionStorage')
              /\ sessionStorage'[CURRENT_QUESTION_KEY] = sessionStorage[CURRENT_QUESTION_KEY]
    ]_vars

\* C5 witness: the demo worksheet was advanced to its last question and then
\* once more: completed is set and the stored pointer is still 9.
C5_Witness ==
  /\ getWorksheet(sessionStorage) # None
  /\ getTotalQuestionsCount(sessionStorage) = 10
  /\ getCompletedQuestionsCount(sessionStorage) = 10
  /\ getCurrentQuestionIndex(sessionStorage) = 9
  /\ isCompleted(sessionStorage)
  /\ worksheetPage = None

\* a step that calls clearStorage
ClearStep == UploadSubmit \/ DemoClick \/ StartNew

\* C6: between two clears the stored pointer never decreases, and the shown
\* question is never one below the stored pointer.
C6_NoBackward ==
  [][/\ ClearStep \/ getCurrentQuestionIndex(sessionStorage')
                       >= getCurrentQuestionIndex(sessionStorage)
     /\ QuestionShown' => Val(worksheetPage').currentIndex
                            >= getCurrentQuestionIndex(sessionStorage')
    ]_vars

\* C6 witness: the page was left after a submit at pointer 2 and entered again:
\* the already answered question 2 is shown, not an earlier one.
C6_Witness ==
  /\ QuestionShown /\ ~Page.hasSubmitted
  /\ getCurrentQuestionIndex(sessionStorage) = 2
  /\ Page.currentIndex = 2
  /\ getAllQuestions(sessionStorage)[3].userAnswer # None

\* C10: every question of the stored worksheet has userAnswer and isCorrect
\* both absent or both present.
C10_AnswerWithVerdict ==
  \A i \in 1..Len(getAllQuestions(sessionStorage)) :
    (getAllQuestions(sessionStorage)[i].userAnswer = None)
      <=> (getAllQuestions(sessionStorage)[i].isCorrect = None)

\* C10 witness: a stored worksheet with an answered and an unanswered question,
\* after an advance.
C10_Witness ==
  /\ getCurrentQuestionIndex(sessionStorage) = 1
  /\ Len(getAllQuestions(sessionStorage)) >= 2
  /\ getAllQuestions(sessionStorage)[1].userAnswer # None
  /\ getAllQuestions(sessionStorage)[1].isCorrect # None
  /\ getAllQuestions(sessionStorage)[2].userAnswer = None
  /\ getAllQuestions(sessionStorage)[2].isCorrect = None


\* the question without what a submission adds
Unanswered(question) == [question EXCEPT !.userAnswer = None, !.isCorrect = None]

\* worksheet b is worksheet a but for the userAnswer and isCorrect of the
\* questions of the id
SameButAnswersOf(a, b, questionId) ==
  /\ b.id = a.id /\ b.title = a.title
  /\ Len(b.sections) = Len(a.sections)
  /\ \A s \in 1..Len(a.sections) :
       /\ b.sections[s].id = a.sections[s].id
       /\ b.sections[s].title = a.sections[s].title
       /\ Len(b.sections[s].questions) = Len(a.sections[s].questions)
       /\ \A q \in 1..Len(a.sections[s].questions) :
            LET old == a.sections[s].questions[q]
                new == b.sections[s].questions[q]
            IN /\ new.id = old.id /\ new.type = old.type /\ new.text = old.text
               /\ new.options = old.options /\ new.correctAnswer = old.correctAnswer
               /\ Unanswered(new) = Unanswered(old)
               /\ old.id # questionId => new = old

\* C11: a submission changes nothing in the stored worksheet but the
\* userAnswer and isCorrect of the submitted question; ids, titles, order and
\* number of sections and questions, type, text, options and correctAnswer
\* stay, and so do the current index, the student info and the completed flag.
C11_SubmitFrame ==
  [][QuestionSubmit =>
       /\ (getWorksheet(sessionStorage') = None) <=> (getWorksheet(sessionStorage) = None)
       /\ getWorksheet(sessionStorage) # None =>
            SameButAnswersOf(Val(getWorksheet(sessionStorage)),
                             Val(getWorksheet(sessionStorage')), currentQuestion.id)
       /\ sessionStorage'[CURRENT_QUESTION_KEY] = sessionStorage[CURRENT_QUESTION_KEY]
       /\ sessionStorage'[STUDENT_INFO_KEY] = sessionStorage[STUDENT_INFO_KEY]
       /\ sessionStorage'[COMPLETED_KEY] = sessionStorage[COMPLETED_KEY]
    ]_vars

\* C11 witness: the second question was submitted with the first one answered
\* before it, the third still unanswered, and the student info in the store.
C11_Witness ==
  /\ QuestionShown /\ Page.hasSubmitted /\ Page.currentIndex = 1
  /\ ShownIsStored
  /\ getCurrentQuestionIndex(sessionStorage) = 1
  /\ getStudentInfo(sessionStorage) # None
  /\ getAllQuestions(sessionStorage)[1].userAnswer # None
  /\ getAllQuestions(sessionStorage)[2].userAnswer # None
  /\ getAllQuestions(sessionStorage)[3].userAnswer = None


\* what the four getters return for a store with nothing in it
AllCleared(ss) ==
  /\ \A k \in StorageKeys : ss[k] = None
  /\ getWorksheet(ss) = None
  /\ getCurrentQuestionIndex(ss) = 0
  /\ getStudentInfo(ss) = None
  /\ ~isCompleted(ss)

\* the step removes the slot
Removes(k) == sessionStorage[k] # None /\ sessionStorage'[k] = None

\* C12: a handler that calls clearStorage and saves nothing leaves all four
\* slots removed and the four getters at their defaults; the demo load leaves
\* only its new worksheet; and no step at all removes some slots and leaves
\* index, student info or completed flag behind for the next handler to see.
C12_ClearAll ==
  [][/\ (StartNew \/ (UploadSubmit /\ Index.file # None)) => AllCleared(sessionStorage')
     /\ DemoClick =>
          /\ getWorksheet(sessionStorage') = Some(createSampleWorksheet)
          /\ getCurrentQuestionIndex(sessionStorage') = 0
          /\ getStudentInfo(sessionStorage') = None
          /\ ~isCompleted(sessionStorage')
     /\ (\E k \in StorageKeys : Removes(k)) =>
          \A k \in StorageKeys \ {WORKSHEET_KEY} : sessionStorage'[k] = None
    ]_vars

\* C12 witness: an upload was just submitted by a student whose info had been
\* stored: the request is in flight and all four slots are gone.
C12_Witness ==
  /\ OnIndex /\ Index.isUploading /\ Index.hasCompletedInfo
  /\ \E p \in inflight : p.live
  /\ AllCleared(sessionStorage)


(***************************************************************************)
(* services/openAIService.ts: processWorksheetImage, one await at a time.  *)
(* An element of inflight without a phase is at the FileReader; afterwards *)
(* it carries the phase of the promise, the abort timer, response.ok and,  *)
(* once the promise is resolved, its value.                                *)
(***************************************************************************)
\* options of one question in a response
MaxOptions == 2

DefaultErrorMessage == "There was an error processing your worksheet. Please try again."
FormatErrorMessage == "Could not detect worksheet format"
TimeoutErrorMessage == "PDF processing timed out. Try a smaller file."
PdfErrorMessage == "Failed to process PDF"

\* a thrown value: the catch block reads its message only
Thrown(message) == [message |-> message]

\* the value the promise resolves to: { worksheet, error? }
IngestResult(worksheet, error) == [worksheet |-> worksheet, error |-> error]

\* a catch block that passes error.message on as it is
Caught_NoDefault(error) ==
  IngestResult(None, IF error.message = None THEN Some("") ELSE error.message)

\* catch (error): error.message || "There was an error ..."
Caught(error) ==
  IngestResult(None,
    Some(IF error.message = None \/ Val(error.message) = ""
           THEN DefaultErrorMessage ELSE Val(error.message)))

\* a parsed JSON body: null, or an object that may have worksheet and error
JsonNull == [isNull |-> TRUE, worksheet |-> None, error |-> None]
JsonObject(worksheet, error) == [isNull |-> FALSE, worksheet |-> worksheet, error |-> error]

\* if (!data.worksheet) ... return { worksheet: data.worksheet }
AfterData(data) ==
  IF data.isNull THEN Caught(Thrown(Some("Cannot read properties of null")))
  ELSE IF data.worksheet = None THEN IngestResult(None, Some(FormatErrorMessage))
  ELSE IngestResult(data.worksheet, None)

\* data = await response.json(); if (!response.ok) throw new Error(data.error || ...)
AfterPdfBody(ok, body) ==
  IF ~body.parseable THEN Caught(Thrown(Some("Unexpected token in JSON")))
  ELSE IF ~ok
    THEN IF body.data.isNull THEN Caught(Thrown(Some("Cannot read properties of null")))
         ELSE Caught(Thrown(Some(IF body.data.error = None \/ Val(body.data.error) = ""
                                   THEN PdfErrorMessage ELSE Val(body.data.error))))
  ELSE AfterData(body.data)

\* const result = await supabase.functions.invoke(...); if (result.error) throw result.error
AfterInvoke(result) ==
  IF result.error # None THEN Caught(Val(result.error)) ELSE AfterData(result.data)

\* the promise of request p in a phase
Pending(p, phase, timer, ok, result) ==
  [request |-> p.request, fileType |-> p.fileType, live |-> p.live,
   phase |-> phase, timer |-> timer, ok |-> ok, result |-> result]

AtReader(p) == "phase" \notin DOMAIN p
InPhase(p, phase) == ~AtReader(p) /\ p.phase = phase

\* the promise settles with the value
Resolve(p, result) ==
  inflight' = (inflight \ {p}) \cup {Pending(p, "resolved", FALSE, FALSE, result)}

IsPdf(p) == p.fileType = "application/pdf"

\* reader.onload: the request is sent; on the PDF path the abort timer is set
ReaderLoads(p) ==
  /\ p \in inflight /\ AtReader(p)
  /\ inflight' = (inflight \ {p}) \cup
       {Pending(p, IF IsPdf(p) THEN "fetch" ELSE "invoke", IsPdf(p), FALSE,
                IngestResult(None, None))}
  /\ UNCHANGED <<sessionStorage, route, indexPage, worksheetPage, resultsPage,
                 navTimers, requests>>

\* reader.onerror = reject: the event has no message
ReaderFails(p) ==
  /\ p \in inflight /\ AtReader(p)
  /\ Resolve(p, Caught(Thrown(None)))
  /\ UNCHANGED <<sessionStorage, route, indexPage, worksheetPage, resultsPage,
                 navTimers, requests>>

\* fetch resolves with the response headers; finally clearTimeout(timeoutId)
FetchResponds(p, ok) ==
  /\ p \in inflight /\ InPhase(p, "fetch")
  /\ inflight' = (inflight \ {p}) \cup {Pending(p, "body", FALSE, ok, p.result)}
  /\ UNCHANGED <<sessionStorage, route, indexPage, worksheetPage, resultsPage,
                 navTimers, requests>>

\* fetch rejects with a transport error: throw err; finally clearTimeout(timeoutId)
FetchRejects(p) ==
  /\ p \in inflight /\ InPhase(p, "fetch")
  /\ Resolve(p, Caught(Thrown(Some("Failed to fetch"))))
  /\ UNCHANGED <<sessionStorage, route, indexPage, worksheetPage, resultsPage,
                 navTimers, requests>>

\* the 25 s timer: controller.abort(), fetch rejects with an AbortError
AbortTimer(p) ==
  /\ p \in inflight /\ InPhase(p, "fetch") /\ p.timer
  /\ Resolve(p, Caught(Thrown(Some(TimeoutErrorMessage))))
  /\ UNCHANGED <<sessionStorage, route, indexPage, worksheetPage, resultsPage,
                 navTimers, requests>>

\* await response.json() settles
BodyRead(p, body) ==
  /\ p \in inflight /\ InPhase(p, "body")
  /\ Resolve(p, AfterPdfBody(p.ok, body))
  /\ UNCHANGED <<sessionStorage, route, indexPage, worksheetPage, resultsPage,
                 navTimers, requests>>

\* await supabase.functions.invoke(...) settles
InvokeReturns(p, result) ==
  /\ p \in inflight /\ InPhase(p, "invoke")
  /\ Resolve(p, AfterInvoke(result))
  /\ UNCHANGED <<sessionStorage, route, indexPage, worksheetPage, resultsPage,
                 navTimers, requests>>

\* WorksheetUpload.handleSubmit after its await
HandleResult(p) ==
  /\ p \in inflight /\ InPhase(p, "resolved")
  /\ IF (p.result.error # None /\ Val(p.result.error) # "") \/ p.result.worksheet = None
       THEN IngestionFails(p)
       ELSE ResolveWithWorksheet(p, Val(p.result.worksheet))

\* the ids a response gives to the options of a question
OptionIdInputs == {None, Some(<<"a">>), Some(<<"b">>)}

\* the ids that are given are different from each other
GivenIdsDiffer(options) ==
  \A i, j \in 1..Len(options) :
    (i # j /\ options[i].id # None) => options[i].id # options[j].id

OptionTexts == <<"first", "second", "third">>

OptionLists ==
  {options \in UNION {{[i \in 1..n |-> Option(ids[i], OptionTexts[i])] :
                          ids \in [1..n -> OptionIdInputs]} : n \in 0..MaxOptions} :
     GivenIdsDiffer(options)}

ChoiceQuestion(text, options) ==
  ParsedQuestion("multiple-choice", text, Some(options), AnswerString(<<"a">>))

\* well-formed worksheets as the AI writes them: two questions, in one
\* section or in two
IngestPayloads ==
  RemotePayloads \cup
  {Worksheet(None, "Parsed",
     IF split
       THEN <<ParsedSection("A", <<ChoiceQuestion("Pick one", o1)>>),
              ParsedSection("B", <<ChoiceQuestion("Pick another", o2)>>)>>
       ELSE <<ParsedSection("A", <<ChoiceQuestion("Pick one", o1),
                                   ChoiceQuestion("Pick another", o2)>>)>>) :
   o1 \in OptionLists, o2 \in OptionLists, split \in BOOLEAN}

\* the JSON bodies of an endpoint for request number r
JsonBodies(r) ==
  {JsonNull, JsonObject(None, None), JsonObject(None, Some("Server error"))}
  \cup {JsonObject(Some(ProcessWorksheet(w, r)), None) : w \in IngestPayloads}

ResponseBodies(r) ==
  {[parseable |-> FALSE, data |-> JsonNull]}
  \cup {[parseable |-> TRUE, data |-> d] : d \in JsonBodies(r)}

InvokeResults(r) ==
  {[error |-> Some(Thrown(m)), data |-> JsonNull] :
     m \in {None, Some(""), Some("Edge Function returned a non-2xx status code")}}
  \cup {[error |-> None, data |-> d] : d \in JsonBodies(r)}

\* the upload panel with a file chosen by a student whose info is stored
IngestInit ==
  /\ sessionStorage = saveStudentInfo(EmptyStorage,
                                      [name |-> <<"A","n","a">>, timestamp |-> "now"])
  /\ route = "/"
  /\ \E f \in FileTypes :
       indexPage = Some([IndexMounted(sessionStorage) EXCEPT
                           !.activeTab = "upload", !.file = Some(f)])
  /\ worksheetPage = None
  /\ resultsPage = None
  /\ inflight = {}
  /\ navTimers = 0
  /\ requests = 0

IngestNext ==
  \/ UploadSubmit
  \/ \E p \in inflight : ReaderLoads(p)
  \/ \E p \in inflight : ReaderFails(p)
  \/ \E p \in inflight : \E ok \in BOOLEAN : FetchResponds(p, ok)
  \/ \E p \in inflight : FetchRejects(p)
  \/ \E p \in inflight : AbortTimer(p)
  \/ \E p \in {q \in inflight : InPhase(q, "body")} :
       \E body \in ResponseBodies(p.request) : BodyRead(p, body)
  \/ \E p \in {q \in inflight : InPhase(q, "invoke")} :
       \E result \in InvokeResults(p.request) : InvokeReturns(p, result)
  \/ \E p \in inflight : HandleResult(p)
  \/ NavigateTimer

SpecIngest == IngestInit /\ [][IngestNext]_vars

\* the browser runs due timers, file reads and promise continuations; the
\* remote endpoint owes nothing
SpecIngestFair ==
  /\ SpecIngest
  /\ WF_vars(\E p \in inflight : ReaderLoads(p) \/ ReaderFails(p))
  /\ WF_vars(\E p \in inflight : AbortTimer(p))
  /\ WF_vars(\E p \in inflight : HandleResult(p))
  /\ WF_vars(NavigateTimer)


(***************************************************************************)
(* Claims about the ingestion                                              *)
(***************************************************************************)
\* the worksheet without any id: what the response said, in its order
StripIds(worksheet) ==
  [worksheet EXCEPT
     !.id = None,
     !.sections = [s \in 1..Len(worksheet.sections) |->
       [worksheet.sections[s] EXCEPT
          !.id = None,
          !.questions = [q \in 1..Len(worksheet.sections[s].questions) |->
            LET question == worksheet.sections[s].questions[q] IN
            [question EXCEPT
               !.id = None,
               !.options = IF question.options = None THEN None
                           ELSE Some([o \in 1..Len(Val(question.options)) |->
                                        [Val(question.options)[o] EXCEPT !.id = None]])]]]]]

\* no two places of the sequence hold the same value, and none is empty
AllDifferent(ids) ==
  /\ \A i \in 1..Len(ids) : ids[i] # <<>>
  /\ \A i, j \in 1..Len(ids) : i # j => ids[i] # ids[j]

SectionIds(worksheet) == [s \in 1..Len(worksheet.sections) |-> worksheet.sections[s].id]

OptionIdsOf(question) ==
  IF question.options = None THEN <<>>
  ELSE [o \in 1..Len(Val(question.options)) |-> Val(question.options)[o].id]

\* C13 as claimed: the stored worksheet of a well-formed response has the
\* sections, questions and options of the response in their order, and
\* non-empty ids: worksheet, sections and questions unique in the worksheet,
\* options unique in their question, options that came without an id included.
C13_RoundTrip ==
  getWorksheet(sessionStorage) # None =>
    LET worksheet == Val(getWorksheet(sessionStorage)) IN
    /\ \E parsed \in IngestPayloads : StripIds(worksheet) = StripIds(parsed)
    /\ AllDifferent(<<worksheet.id>> \o SectionIds(worksheet)
                      \o QuestionIds(FlatMapQuestions(worksheet.sections)))
    /\ \A i \in 1..Len(getAllQuestions(sessionStorage)) :
         AllDifferent(OptionIdsOf(getAllQuestions(sessionStorage)[i]))


\* the promise of the request is resolved in the next state, with the value
ResolvedWith(p, result) == Pending(p, "resolved", FALSE, FALSE, result) \in inflight'

\* a worksheet and no error, or no worksheet and an error message
WorksheetOrError(result) ==
  \/ result.worksheet # None /\ result.error = None
  \/ result.worksheet = None /\ result.error # None /\ Val(result.error) # ""

\* C14: whatever the remote call does (file read error, transport failure,
\* abort, non-2xx, unparseable body, body without worksheet, well-formed body)
\* the promise resolves, to a worksheet with no error or to no worksheet with
\* a non-empty message; a parseable 2xx body without a worksheet gives the
\* message "Could not detect worksheet format".
C14_NeverRejects ==
  [][/\ \A q \in inflight' : InPhase(q, "resolved") => WorksheetOrError(q.result)
     /\ \A p \in inflight :
          /\ (ReaderFails(p) \/ FetchRejects(p) \/ AbortTimer(p))
               => \E result \in {Caught(Thrown(m)) :
                                   m \in {None, Some("Failed to fetch"), Some(TimeoutErrorMessage)}} :
                    ResolvedWith(p, result)
          /\ InPhase(p, "body") => \A body \in ResponseBodies(p.request) :
               BodyRead(p, body) =>
                 /\ \E q \in inflight' : q.request = p.request /\ InPhase(q, "resolved")
                 /\ (p.ok /\ body.parseable /\ ~body.data.isNull /\ body.data.worksheet = None)
                      => ResolvedWith(p, IngestResult(None, Some(FormatErrorMessage)))
                 /\ (p.ok /\ body.parseable /\ body.data.worksheet # None)
                      => ResolvedWith(p, IngestResult(body.data.worksheet, None))
          /\ InPhase(p, "invoke") => \A answer \in InvokeResults(p.request) :
               InvokeReturns(p, answer) =>
                 /\ \E q \in inflight' : q.request = p.request /\ InPhase(q, "resolved")
                 /\ (answer.error = None /\ ~answer.data.isNull /\ answer.data.worksheet = None)
                      => ResolvedWith(p, IngestResult(None, Some(FormatErrorMessage)))
                 /\ (answer.error = None /\ answer.data.worksheet # None)
                      => ResolvedWith(p, IngestResult(answer.data.worksheet, None))
    ]_vars

\* C14 witness: a PDF upload whose 2xx body was parsed and had no worksheet
\* is resolved with the format message, not yet handled by handleSubmit.
C14_Witness ==
  \E p \in inflight :
    /\ InPhase(p, "resolved") /\ IsPdf(p)
    /\ p.result = IngestResult(None, Some(FormatErrorMessage))


\* a PDF ingestion whose promise is not resolved yet
PdfUnresolved == \E p \in inflight : IsPdf(p) /\ ~InPhase(p, "resolved")

\* C15 as claimed: on the PDF path every ingestion is eventually resolved,
\* with a worksheet, an error or the timeout error, whichever phase of the
\* request it is that hangs.
C15_PdfEventuallyResolves == PdfUnresolved ~> ~PdfUnresolved


(***************************************************************************)
(* Claims about uploads, navigation and input errors in the application    *)
(***************************************************************************)
\* C16: an ingestion that succeeds writes its worksheet when it resolves,
\* whether or not another upload was submitted after it or is still in
\* flight: there is no request-generation guard, so after both have resolved
\* the stored worksheet is that of the one that resolved last.
C16_LastWriteWins ==
  [][\A p \in inflight : \A parsedWorksheet \in RemotePayloads :
       IngestionSucceeds(p, parsedWorksheet) =>
         /\ getWorksheet(sessionStorage') = Some(ProcessWorksheet(parsedWorksheet, p.request))
         /\ Val(getWorksheet(sessionStorage')).id = uuidv4(p.request, 0, 0)
         /\ inflight' = inflight \ {p}
    ]_vars

\* C16 witness: two uploads were in flight together and both succeeded; the
\* first one resolved last, and its worksheet is the stored one.
C16_Witness ==
  /\ requests = 2 /\ inflight = {} /\ navTimers = 2
  /\ getWorksheet(sessionStorage) # None
  /\ Val(getWorksheet(sessionStorage)).id = uuidv4(1, 0, 0)


\* C17 as claimed: the question view is never on screen with no worksheet
\* stored (entering it so redirects to the start page), and a question is
\* presented only while a worksheet with at least one question is stored.
C17_QuestionNeedsWorksheet ==
  /\ OnWorksheet => getWorksheet(sessionStorage) # None
  /\ QuestionShown =>
       /\ getWorksheet(sessionStorage) # None
       /\ getTotalQuestionsCount(sessionStorage) >= 1


\* a step that enters the results view: the browser, the finish button, or
\* Next on the last question
EntersResults ==
  \/ HistoryNavigate("/results")
  \/ Finish
  \/ QuestionNext /\ Page.currentIndex >= totalCount - 1

\* C18: entering the results view without the completed flag leads to the
\* question view (which itself leads to the start page when no worksheet is
\* stored); entering it completed but without worksheet or student info leads
\* to the start page; only with all three is the score computed and shown,
\* and the results are never on screen otherwise.
C18_ResultsGuards ==
  [][/\ EntersResults =>
          IF ~isCompleted(sessionStorage')
            THEN /\ resultsPage' = None
                 /\ route' = IF getWorksheet(sessionStorage') = None THEN "/" ELSE "/worksheet"
          ELSE IF getWorksheet(sessionStorage') = None \/ getStudentInfo(sessionStorage') = None
            THEN resultsPage' = None /\ route' = "/"
          ELSE /\ route' = "/results"
               /\ resultsPage' # None
               /\ Val(resultsPage').score = ResultsScore(sessionStorage')
     /\ resultsPage' # None =>
          /\ isCompleted(sessionStorage')
          /\ getWorksheet(sessionStorage') # None
          /\ getStudentInfo(sessionStorage') # None
    ]_vars

\* C18 witness: the results are shown with the score of a completed
\* three-question worksheet, one answer right, for a student whose info is stored.
C18_Witness ==
  /\ OnResults
  /\ isCompleted(sessionStorage) /\ getStudentInfo(sessionStorage) # None
  /\ Results.score.totalCount = 3 /\ Results.score.correctCount = 1


\* C19: the upload form submitted with no file sends no request and leaves
\* the four slots as they are; the student form submitted with an empty or
\* whitespace-only name leaves the stored student info (and every other slot)
\* as it is.
C19_InputErrorsChangeNothing ==
  [][/\ (UploadSubmit /\ Index.file = None) =>
          /\ sessionStorage' = sessionStorage
          /\ inflight' = inflight /\ requests' = requests
     /\ (StudentFormSubmit /\ \A i \in 1..Len(Index.name) : Index.name[i] \in WhiteSpace) =>
          /\ sessionStorage' = sessionStorage
          /\ indexPage' = indexPage
    ]_vars

\* C19 witness: a whitespace-only name is in the field of the student form,
\* not accepted, and no student info is stored.
C19_Witness ==
  /\ OnIndex /\ Index.activeTab = "name" /\ ~Index.isSubmitting
  /\ Index.name = <<" ">>
  /\ getStudentInfo(sessionStorage) = None


\* a step that loads a new worksheet into the store
LoadsWorksheet ==
  \/ DemoClick
  \/ \E p \in inflight : \E parsedWorksheet \in RemotePayloads :
       IngestionSucceeds(p, parsedWorksheet)

\* C20 as claimed: a restart leaves the session cleared, and immediately
\* after a new worksheet has been loaded, by the demo or by an upload, the
\* current index is 0, the completed flag is false and no stored question has
\* a userAnswer or isCorrect.
C20_LoadStartsFresh ==
  [][/\ StartNew => AllCleared(sessionStorage')
     /\ LoadsWorksheet =>
          /\ getCurrentQuestionIndex(sessionStorage') = 0
          /\ ~isCompleted(sessionStorage')
          /\ \A i \in 1..Len(getAllQuestions(sessionStorage')) :
               /\ getAllQuestions(sessionStorage')[i].userAnswer = None
               /\ getAllQuestions(sessionStorage')[i].isCorrect = None
    ]_vars

(***************************************************************************)
(* The report on its own: the results page of a finished session, with     *)
(* the answers the evaluation recorded; the user downloads the PDF.        *)
(***************************************************************************)
\* height of the rendered canvas and of the page
MaxCanvasHeight == 4
MaxPageHeight == 2

\* canvases and pages up to a height
Sizes(maxHeight) == {[width |-> w, height |-> h] : w \in 1..2, h \in 1..maxHeight}

\* what the user selects and types in a session taken on its own
AnswerInputs == [options |-> {<<"a">>, <<"b">>},
                 texts |-> {<<" ","E","S"," ">>, <<"n","o">>}]

\* three questions in two sections, each drawn from a choice question, a
\* text question that accepts two answers and a fill-blank question; the
\* first two are submitted with one of the inputs, the third is submitted
\* or left out by "Finish Worksheet"
ReportWorksheets ==
  LET Questions(s, q) ==
        {Question(uuidv4(1, s, q), "multiple-choice", "choose",
                  Some(<<Option(<<"a">>, "first"), Option(<<"b">>, "second")>>),
                  AnswerString(<<"b">>)),
         Question(uuidv4(1, s, q), "text", "translate", None,
                  AnswerArray(<< <<"E","s">>, <<"e","s">> >>)),
         Question(uuidv4(1, s, q), "fill-blank", "fill", None, AnswerString(<<"E","s">>))}
      Submitted(question) ==
        {[question EXCEPT !.userAnswer = Some(Evaluate(question, o, t).answer),
                          !.isCorrect = Some(Evaluate(question, o, t).correct)] :
           o \in AnswerInputs.options, t \in AnswerInputs.texts}
  IN {Worksheet(uuidv4(1, 0, 0), "Quiz",
                <<WorksheetSection(uuidv4(1, 1, 0), "One", <<a1, a2>>),
                  WorksheetSection(uuidv4(1, 2, 0), "Two", <<a3>>)>>) :
        a1 \in UNION {Submitted(q) : q \in Questions(1, 1)},
        a2 \in UNION {Submitted(q) : q \in Questions(1, 2)},
        a3 \in UNION {Submitted(q) \cup {q} : q \in Questions(2, 1)}}

ReportInit ==
  /\ \E worksheet \in ReportWorksheets :
       sessionStorage =
         markAsCompleted(
           saveStudentInfo(saveWorksheet(EmptyStorage, worksheet),
                           [name |-> <<"A","n","a">>, timestamp |-> "now"]),
           TRUE)
  /\ route = "/results"
  /\ indexPage = None
  /\ worksheetPage = None
  /\ resultsPage = Some(ResultsMounted(sessionStorage))
  /\ inflight = {}
  /\ navTimers = 0
  /\ requests = 0

ReportNext ==
  \E canvas \in Sizes(MaxCanvasHeight) : \E page \in Sizes(MaxPageHeight) :
    DownloadPDF(canvas, page)

SpecReport == ReportInit /\ [][ReportNext]_vars

(***************************************************************************)
(* Claims about the report                                                 *)
(***************************************************************************)
\* the accepted answers one after the other, ", " between two of them
RECURSIVE JoinedUpTo(_, _)
JoinedUpTo(arr, k) ==
  IF k = 0 THEN <<>>
  ELSE IF k = 1 THEN arr[1]
  ELSE JoinedUpTo(arr, k - 1) \o <<",", " ">> \o arr[k]

CanonicalAnswers(question) ==
  IF question.correctAnswer.isArray
    THEN JoinedUpTo(question.correctAnswer.arr, Len(question.correctAnswer.arr))
    ELSE question.correctAnswer.str

\* the places (section, question) of the worksheet shown by the results page
ReportPlaces ==
  {<<s, i>> \in (1..Len(Results.worksheet.sections)) \X (1..3) :
     i <= Len(Results.worksheet.sections[s].questions)}

ReportedQuestion(place) == Results.worksheet.sections[place[1]].questions[place[2]]
ReportedElement(place) == Val(Results.pdf).sections[place[1]].questions[place[2]]

\* C21: in the rendered report each question shows the user's answer, or
\* the "Not answered" marker exactly when userAnswer is absent; the canonical
\* correct answers, joined by ", " when several are accepted, are never shown
\* for a question whose isCorrect is true and always shown for a question
\* answered incorrectly.
C21_ReportAnswers ==
  (OnResults /\ Results.pdf # None) =>
    \A place \in ReportPlaces :
      LET question == ReportedQuestion(place)
          element == ReportedElement(place)
      IN /\ (element.yourAnswer = NotAnswered) <=> (question.userAnswer = None)
         /\ question.userAnswer # None => element.yourAnswer = Val(question.userAnswer)
         /\ question.isCorrect = Some(TRUE) => element.correctAnswer = None
         /\ (question.userAnswer # None /\ question.isCorrect = Some(FALSE))
              => element.correctAnswer = Some(CanonicalAnswers(question))

\* a report with a correct answer, a wrong answer to a question that accepts
\* two answers, and a question left out
C21_Witness ==
  /\ OnResults /\ Results.pdf # None
  /\ \E p1, p2, p3 \in ReportPlaces :
       /\ ReportedQuestion(p1).isCorrect = Some(TRUE)
       /\ ReportedElement(p1).correctAnswer = None
       /\ ReportedQuestion(p2).isCorrect = Some(FALSE)
       /\ ReportedQuestion(p2).correctAnswer.isArray
       /\ ReportedElement(p2).correctAnswer = Some(<<"E","s",","," ","e","s">>)
       /\ ReportedQuestion(p3).userAnswer = None
       /\ ReportedElement(p3).yourAnswer = NotAnswered

\* the part of the drawn image below the top edge of the page is not empty
ShowsContent(image) == image.y * image.height.den + image.height.num > 0

\* the drawn image does not reach below the bottom edge of the page
ContentEnds(image, page) ==
  image.y * image.height.den + image.height.num <= page.height * image.height.den

\* C22 as claimed: for content height H and page height P the loop emits
\* ceil(H/P) pages, page k has the content at offset -(k-1)*P, and the pages
\* show successive slices of the content until it is consumed: every page
\* shows a part of the content and the last page shows its end.
C22_Pagination ==
  [][\A canvas \in Sizes(MaxCanvasHeight) : \A page \in Sizes(MaxPageHeight) :
       DownloadPDF(canvas, page) =>
         LET pages == Val(Val(resultsPage').pdf).pages IN
         /\ Len(pages) = (canvas.height + page.height - 1) \div page.height
         /\ \A k \in 1..Len(pages) :
              /\ pages[k].y = -((k - 1) * page.height)
              /\ ShowsContent(pages[k])
         /\ ContentEnds(pages[Len(pages)], page)]_vars


(***************************************************************************)
(* Claims about the session as a whole                                     *)
(***************************************************************************)
\* C23 as claimed: whenever a worksheet is stored and the session is not
\* finished, the stored currentQuestionIndex is at least 0 and less than the
\* number of questions of the stored worksheet.
C23_IndexInRange ==
  (getWorksheet(sessionStorage) # None /\ ~isCompleted(sessionStorage)) =>
    /\ 0 <= getCurrentQuestionIndex(sessionStorage)
    /\ getCurrentQuestionIndex(sessionStorage) < getTotalQuestionsCount(sessionStorage)


\* C24: a submit stores userAnswer and isCorrect with the stored question
\* of the id shown and leaves the stored currentQuestionIndex and the completed flag as they
\* were; the pointer moves forward only by an advance, and the flag is set
\* only by an advance from the last question or by a finish.
C24_SubmitDoesNotAdvance ==
  [][/\ QuestionSubmit =>
          /\ \A i \in 1..Len(getAllQuestions(sessionStorage')) :
               getAllQuestions(sessionStorage')[i].id = currentQuestion.id =>
                 /\ HasUserAnswer(getAllQuestions(sessionStorage')[i])
                 /\ getAllQuestions(sessionStorage')[i].isCorrect # None
          /\ getCurrentQuestionIndex(sessionStorage') = getCurrentQuestionIndex(sessionStorage)
          /\ isCompleted(sessionStorage') = isCompleted(sessionStorage)
     /\ getCurrentQuestionIndex(sessionStorage') > getCurrentQuestionIndex(sessionStorage)
          => QuestionNext
     /\ (isCompleted(sessionStorage') /\ ~isCompleted(sessionStorage))
          => (QuestionNext \/ Finish)]_vars

\* the second question has been submitted: the pointer is still on it
C24_Witness ==
  /\ OnWorksheet /\ QuestionShown /\ Page.hasSubmitted
  /\ Page.currentIndex = 1
  /\ getCurrentQuestionIndex(sessionStorage) = 1
  /\ ~isCompleted(sessionStorage)
  /\ Len(getAllQuestions(sessionStorage)) >= 2
  /\ HasUserAnswer(getAllQuestions(sessionStorage)[2])


\* C25 as claimed: the student info entered in the form is still stored
\* whenever a worksheet is loaded, from the load until the session is
\* finished, so that the results view has it.
C25_StudentInfoSurvives ==
  getWorksheet(sessionStorage) # None => getStudentInfo(sessionStorage) # None


\* every question of the stored worksheet has a userAnswer
AllAnswered(ss) ==
  \A i \in 1..Len(getAllQuestions(ss)) : HasUserAnswer(getAllQuestions(ss)[i])

\* the stored questions at flattened positions below the stored pointer
BelowPointer(ss) ==
  {i \in 1..Len(getAllQuestions(ss)) : i <= getCurrentQuestionIndex(ss)}

\* C26 as claimed: in every state reached the stored questions below the
\* stored currentQuestionIndex have a userAnswer and the number of answered
\* questions is at least the index; an advance from the last question that
\* finishes the session leaves every stored question answered.
C26_AnsweredBelowPointer ==
  [][/\ \A i \in BelowPointer(sessionStorage') :
          HasUserAnswer(getAllQuestions(sessionStorage')[i])
     /\ getCompletedQuestionsCount(sessionStorage') >= getCurrentQuestionIndex(sessionStorage')
     /\ (QuestionNext /\ isCompleted(sessionStorage') /\ ~isCompleted(sessionStorage))
          => AllAnswered(sessionStorage')]_vars


\* C27 as claimed: whenever the completed flag is set, a worksheet is stored
\* and at least half of its questions, rounded up, have a userAnswer.
C27_CompletedMeansHalfAnswered ==
  isCompleted(sessionStorage) =>
    /\ getWorksheet(sessionStorage) # None
    /\ 2 * getCompletedQuestionsCount(sessionStorage) >= getTotalQuestionsCount(sessionStorage)


(***************************************************************************)
(* One session on its own: a worksheet has been loaded and the question    *)
(* view is entered; the user keeps answering and advancing.                *)
(***************************************************************************)
\* what handleDemoClick or a resolved handleSubmit has stored: the demo, or a
\* response without sections, with a section without questions, with questions
SessionWorksheets ==
  {createSampleWorksheet} \cup
  {ProcessWorksheet(w, 1) :
     w \in {EmptyPayload,
            Worksheet(None, "Headings", <<ParsedSection("Only a title", <<>>)>>),
            ThreeQuestionPayload}}

SessionInit ==
  /\ \E worksheet \in SessionWorksheets :
       sessionStorage = saveWorksheet(EmptyStorage, worksheet)
  /\ route = EnterWorksheet(sessionStorage).route
  /\ indexPage = EnterWorksheet(sessionStorage).indexPage
  /\ worksheetPage = EnterWorksheet(sessionStorage).worksheetPage
  /\ resultsPage = EnterWorksheet(sessionStorage).resultsPage
  /\ inflight = {}
  /\ navTimers = 0
  /\ requests = 0

Answer ==
  \/ \E o \in AnswerInputs.options : SelectOption(o)
  \/ \E t \in AnswerInputs.texts : TypeText(t)

SessionNext ==
  \/ Answer
  \/ QuestionSubmit
  \/ QuestionNext
  \/ Finish

\* the user keeps answering, submitting and advancing
SpecSession ==
  /\ SessionInit /\ [][SessionNext]_vars
  /\ WF_vars(Answer) /\ WF_vars(QuestionSubmit) /\ WF_vars(QuestionNext)

\* C28 as claimed: for every loaded worksheet, one without sections or
\* without questions included, the user who keeps submitting and advancing
\* eventually has the completed flag set or is sent to the start page.
C28_EventuallyFinished ==
  <>(isCompleted(sessionStorage) \/ route = "/")


(***************************************************************************)
(* Claims about a failed upload                                            *)
(***************************************************************************)
\* handleSubmit takes the branch `result.error || !result.worksheet`
ResultIsError(p) ==
  /\ InPhase(p, "resolved")
  /\ (p.result.error # None /\ Val(p.result.error) # "") \/ p.result.worksheet = None

Reload ==
  /\ LET e == Enter(route, sessionStorage) IN
     /\ route' = e.route
     /\ indexPage' = e.indexPage
     /\ worksheetPage' = e.worksheetPage
     /\ resultsPage' = e.resultsPage
  /\ inflight' = {}
  /\ navTimers' = 0
  /\ UNCHANGED <<sessionStorage, requests>>

ResumeNext ==
  \/ SessionNext
  \/ Reload

SpecResume == SessionInit /\ [][ResumeNext]_vars

\* C30 as claimed: once a userAnswer and an isCorrect are stored with a
\* question, no later step that is not a clear changes them, a submit after
\* the question view was mounted again at the same pointer included.
C30_EvaluatedOnce ==
  [][~ClearStep =>
       \A i \in 1..Len(getAllQuestions(sessionStorage)) :
         LET before == getAllQuestions(sessionStorage)[i] IN
         (HasUserAnswer(before) /\ before.isCorrect # None) =>
           \A j \in 1..Len(getAllQuestions(sessionStorage')) :
             LET after == getAllQuestions(sessionStorage')[j] IN
             after.id = before.id =>
               /\ after.userAnswer = before.userAnswer
               /\ after.isCorrect = before.isCorrect]_vars
====
